---------------------------- MODULE Spec2Model ----------------------------
(***************************************************************************)
(* Healthcare fraud risk scoring: the batch scorer                         *)
(* (src/inference/batch_score_claims.py) and the stability evaluator       *)
(* (src/training/evaluate_stability.py).                                   *)
(*                                                                         *)
(* Raw anomaly scores are integers on a fixed grid; a normalized score is  *)
(* the exact fraction [num, den] the code's float division approximates.   *)
(* Calls into pandas, sklearn and mlflow are environment steps: they       *)
(* either fail (the exception leaves the function) or return a value       *)
(* chosen from a small set.                                                *)
(***************************************************************************)
EXTENDS Integers, Sequences, FiniteSets, TLC

(***************************************************************************)
(* Bounds of the model.                                                    *)
(***************************************************************************)
MaxRows == 2
MaxRunRaw == 1
MaxDate == 2
MaxBatchRuns == 2
MaxRaw == 20
MaxBatch == 3
MaxProviders == 2
MaxStabRaw == 2
MaxRuns == 2
MaxTopN == 3
MaxTrees == 2
MaxDetRows == 3
MaxDraws == 2

(***************************************************************************)
(* Program constants.                                                      *)
(***************************************************************************)
HIGH_PCT == 95
MEDIUM_PCT == 85
PCT == 100

VARIABLES
    pc,         \* position of batch_score_providers
    error,      \* the exception that left the run, "none" while it runs
    df,         \* the feature table read at line 57
    scores,     \* raw anomaly scores, line 73
    results,    \* results_df, lines 78-96
    dir_made,   \* this run executed output_dir.mkdir, line 104
    today_str,  \* date.today() as read at line 106
    widx,       \* how many of the four writes of lines 117-121 are done
    fs,         \* the files of output_dir
    fs0,        \* fs as it was when the current run started
    clock,      \* the calendar date
    runNo,      \* runs started so far
    spc,                \* position of evaluate_model_stability
    serror,             \* the exception that left it, "none" otherwise
    n_runs,             \* argument
    top_n,              \* argument
    base_random_state,  \* argument
    ids,                \* df["provider_id"], line 45
    all_scores,         \* the run_df of every iteration, lines 48-71
    scores_df,          \* pd.concat(all_scores), line 73
    corr_diag,          \* the diagonal of corr_matrix, line 86
    top_sets,           \* lines 94-102
    overlaps,           \* lines 104-107
    det_seed,           \* the random_state both pipelines are built with
    features,           \* the feature matrix both pipelines are given
    global_rng,         \* draws made so far from the process-wide generator
    pipe                \* the two pipelines, independently built

batchVars == <<pc, error, df, scores, results, dir_made, today_str, widx,
               fs, fs0, clock, runNo>>

stabVars == <<spc, serror, n_runs, top_n, base_random_state, ids,
              all_scores, scores_df, corr_diag, top_sets, overlaps>>

detVars == <<det_seed, features, global_rng, pipe>>

vars == <<batchVars, stabVars, detVars>>

(***************************************************************************)
(* Fractions: the value num/den with den > 0.                              *)
(***************************************************************************)
Frac(n, d) == [num |-> n, den |-> d]

Zero == Frac(0, 1)

\* f >= p/PCT
FracGE(f, p) == f.num * PCT >= p * f.den

\* f <= g
FracLE(f, g) == f.num * g.den <= g.num * f.den

SetMin(S) == CHOOSE x \in S : \A y \in S : x <= y

SetMax(S) == CHOOSE x \in S : \A y \in S : x >= y

Range(s) == {s[i] : i \in DOMAIN s}

(***************************************************************************)
(* assign_risk_band, lines 21-32.                                          *)
(***************************************************************************)
assign_risk_band_flipped(score) ==
    IF FracGE(score, HIGH_PCT) THEN "HIGH"
    ELSE IF ~FracGE(score, MEDIUM_PCT) THEN "MEDIUM"
    ELSE "LOW"

assign_risk_band_strict(score) ==
    IF score.num * PCT > HIGH_PCT * score.den THEN "HIGH"
    ELSE IF score.num * PCT > MEDIUM_PCT * score.den THEN "MEDIUM"
    ELSE "LOW"

assign_risk_band(score) ==
    IF FracGE(score, HIGH_PCT) THEN "HIGH"
    ELSE IF FracGE(score, MEDIUM_PCT) THEN "MEDIUM"
    ELSE "LOW"

Severity(band) ==
    CASE band = "LOW" -> 0
      [] band = "MEDIUM" -> 1
      [] band = "HIGH" -> 2

(***************************************************************************)
(* Min-max normalization of a batch, lines 84-93.                          *)
(***************************************************************************)
score_min(raw) == SetMin(Range(raw))

score_max(raw) == SetMax(Range(raw))

normalize_no_shift(raw) ==
    IF score_max(raw) > score_min(raw)
    THEN [i \in DOMAIN raw |->
            Frac(raw[i], score_max(raw) - score_min(raw))]
    ELSE [i \in DOMAIN raw |-> Zero]

normalize_degenerate_one(raw) ==
    IF score_max(raw) > score_min(raw)
    THEN [i \in DOMAIN raw |->
            Frac(raw[i] - score_min(raw), score_max(raw) - score_min(raw))]
    ELSE [i \in DOMAIN raw |-> Frac(1, 1)]

normalize_wide_range(raw) ==
    IF score_max(raw) > score_min(raw)
    THEN [i \in DOMAIN raw |->
            Frac(raw[i] - score_min(raw),
                 score_max(raw) - score_min(raw) + 1)]
    ELSE [i \in DOMAIN raw |-> Zero]

normalize(raw) ==
    IF score_max(raw) > score_min(raw)
    THEN [i \in DOMAIN raw |->
            Frac(raw[i] - score_min(raw), score_max(raw) - score_min(raw))]
    ELSE [i \in DOMAIN raw |-> Zero]

(***************************************************************************)
(* results_df, lines 78-96: one row per provider, the identifier, the      *)
(* normalized score and its band.                                          *)
(***************************************************************************)
build_results(raw) ==
    [i \in DOMAIN raw |->
        [provider_id |-> i,
         fraud_risk_score |-> normalize(raw)[i],
         risk_band |-> assign_risk_band(normalize(raw)[i])]]


(***************************************************************************)
(* The feature table and the registered model.                             *)
(***************************************************************************)
Columns == {"provider_id", "f1", "f2", "f3"}

\* the columns the registered pipeline was fitted on
\* (train_isolation_forest.py drops provider_id and fits on the rest)
TrainedColumns == {"f1", "f2"}

FeatureTables == [cols : SUBSET Columns, nrows : 0..MaxRows]

NoTable == [cols |-> {}, nrows |-> 0]

\* X = df.drop(columns=["provider_id"]), line 60
X(d) == [cols |-> d.cols \ {"provider_id"}, nrows |-> d.nrows]

\* model.score_samples(X), line 73: the fitted pipeline validates the frame
\* it is given against the feature names seen at fit time, and needs a row
score_samples_count_only(x) ==
    Cardinality(x.cols) = Cardinality(TrainedColumns) /\ x.nrows >= 1

score_samples_accepts(x) ==
    x.cols = TrainedColumns /\ x.nrows >= 1

RunRaw == 0..MaxRunRaw

(***************************************************************************)
(* The output directory.                                                   *)
(***************************************************************************)
Formats == {"parquet", "csv"}

Dates == 1..MaxDate

LatestFiles == {<<"latest", 0, f>> : f \in Formats}

DatedFiles == {<<"dated", d, f>> : d \in Dates, f \in Formats}

Files == LatestFiles \cup DatedFiles

Absent == [kind |-> "absent", rows |-> <<>>]

Partial == [kind |-> "partial", rows |-> <<>>]

Table(r) == [kind |-> "table", rows |-> r]

\* the four writes in the order of lines 117-121
WriteOrder(day) ==
    << <<"latest", 0, "parquet">>, <<"latest", 0, "csv">>,
       <<"dated", day, "parquet">>, <<"dated", day, "csv">> >>

(***************************************************************************)
(* batch_score_providers, lines 35-128.                                    *)
(***************************************************************************)
\* no pipeline is being compared with another
DetOff ==
    /\ det_seed = 0
    /\ features = <<>>
    /\ global_rng = 0
    /\ pipe = <<>>

\* evaluate_model_stability is not running
StabOff ==
    /\ spc = "off"
    /\ serror = "none"
    /\ n_runs = 0
    /\ top_n = 0
    /\ base_random_state = 0
    /\ ids = <<>>
    /\ all_scores = <<>>
    /\ scores_df = <<>>
    /\ corr_diag = <<>>
    /\ top_sets = <<>>
    /\ overlaps = <<>>

Init ==
    /\ StabOff
    /\ DetOff
    /\ pc = "idle"
    /\ error = "none"
    /\ df = NoTable
    /\ scores = <<>>
    /\ results = <<>>
    /\ dir_made = FALSE
    /\ today_str = 0
    /\ widx = 0
    /\ fs = [f \in Files |-> Absent]
    /\ fs0 = [f \in Files |-> Absent]
    /\ clock \in Dates
    /\ runNo = 0

Abort(e) ==
    /\ pc' = "aborted"
    /\ error' = e

StartFresh ==
    /\ pc' = "start"
    /\ error' = "none"
    /\ df' = NoTable
    /\ scores' = <<>>
    /\ results' = <<>>
    /\ dir_made' = FALSE
    /\ today_str' = 0
    /\ widx' = 0
    /\ fs0' = fs
    /\ runNo' = runNo + 1
    /\ UNCHANGED <<fs, clock>>
    /\ UNCHANGED <<stabVars, detVars>>

\* the script is started, lines 131-143
StartRun ==
    /\ pc = "idle"
    /\ StartFresh

\* the scheduler starts the script again, into the same output directory
Rerun ==
    /\ pc \in {"done", "aborted"}
    /\ runNo < MaxBatchRuns
    /\ StartFresh

\* midnight passes; the run reads the date once (line 106), so a day that
\* changes during a run is the same as one that changes before or after it
Tick ==
    /\ pc \in {"idle", "done", "aborted"}
    /\ clock < MaxDate
    /\ clock' = clock + 1
    /\ UNCHANGED <<pc, error, df, scores, results, dir_made, today_str,
                   widx, fs, fs0, runNo>>
    /\ UNCHANGED <<stabVars, detVars>>

\* lines 56-60: read the table, take provider_id, drop it
LoadFeatures ==
    /\ pc = "start"
    /\ \/ /\ Abort("FeatureLoad")
          /\ UNCHANGED df
       \/ \E d \in FeatureTables :
             /\ df' = d
             /\ IF "provider_id" \in d.cols
                THEN pc' = "loaded" /\ error' = error
                ELSE Abort("KeyError")
    /\ UNCHANGED <<scores, results, dir_made, today_str, widx, fs, fs0,
                   clock, runNo>>
    /\ UNCHANGED <<stabVars, detVars>>

\* lines 65-67: resolve models:/name@alias in the registry
LoadModel ==
    /\ pc = "loaded"
    /\ \/ Abort("ModelResolution")
       \/ pc' = "model" /\ error' = error
    /\ UNCHANGED <<df, scores, results, dir_made, today_str, widx, fs, fs0,
                   clock, runNo>>
    /\ UNCHANGED <<stabVars, detVars>>

\* line 73
Score ==
    /\ pc = "model"
    /\ IF score_samples_accepts(X(df))
       THEN /\ \E s \in [1..df.nrows -> RunRaw] : scores' = s
            /\ pc' = "scored"
            /\ error' = error
       ELSE /\ Abort("SchemaMismatch")
            /\ UNCHANGED scores
    /\ UNCHANGED <<df, results, dir_made, today_str, widx, fs, fs0,
                   clock, runNo>>
    /\ UNCHANGED <<stabVars, detVars>>

\* lines 78-96
BuildResults ==
    /\ pc = "scored"
    /\ results' = build_results(scores)
    /\ pc' = "built"
    /\ UNCHANGED <<error, df, scores, dir_made, today_str, widx, fs, fs0,
                   clock, runNo>>
    /\ UNCHANGED <<stabVars, detVars>>

\* lines 103-114
MakeDir ==
    /\ pc = "built"
    /\ \/ /\ Abort("Mkdir")
          /\ UNCHANGED <<dir_made, today_str>>
       \/ /\ dir_made' = TRUE
          /\ today_str' = clock
          /\ pc' = "writing"
          /\ error' = error
    /\ UNCHANGED <<df, scores, results, widx, fs, fs0, clock, runNo>>
    /\ UNCHANGED <<stabVars, detVars>>

\* one of lines 117, 118, 120, 121: the write replaces the file, or fails
\* leaving it as it was or truncated
WriteOutput ==
    /\ pc = "writing"
    /\ widx < 4
    /\ LET f == WriteOrder(today_str)[widx + 1] IN
       \/ /\ fs' = [fs EXCEPT ![f] = Table(results)]
          /\ widx' = widx + 1
          /\ UNCHANGED <<pc, error>>
       \/ /\ \E c \in {fs[f], Partial} : fs' = [fs EXCEPT ![f] = c]
          /\ Abort("Write")
          /\ UNCHANGED widx
    /\ UNCHANGED <<df, scores, results, dir_made, today_str, fs0, clock,
                   runNo>>
    /\ UNCHANGED <<stabVars, detVars>>

\* lines 123-128
Finish ==
    /\ pc = "writing"
    /\ widx = 4
    /\ pc' = "done"
    /\ UNCHANGED <<error, df, scores, results, dir_made, today_str, widx,
                   fs, fs0, clock, runNo>>
    /\ UNCHANGED <<stabVars, detVars>>

\* one run of the script into an empty output directory
Next ==
    \/ StartRun
    \/ LoadFeatures
    \/ LoadModel
    \/ Score
    \/ BuildResults
    \/ MakeDir
    \/ WriteOutput
    \/ Finish

Spec == Init /\ [][Next]_vars

\* the script run again and again by its scheduler, over several days
SchedulerNext ==
    \/ Next
    \/ Rerun
    \/ Tick

SchedulerSpec == Init /\ [][SchedulerNext]_vars

(***************************************************************************)
(* The risk scorer alone, lines 78-96, on every batch of raw scores of the *)
(* grid.                                                                   *)
(***************************************************************************)
ScorerRaw == (0 - 1)..MaxRaw

ScorerInit ==
    /\ StabOff
    /\ DetOff
    /\ pc = "scored"
    /\ error = "none"
    /\ \E n \in 1..MaxBatch :
          /\ df = [cols |-> TrainedColumns \cup {"provider_id"}, nrows |-> n]
          /\ scores \in [1..n -> ScorerRaw]
    /\ results = <<>>
    /\ dir_made = FALSE
    /\ today_str = 0
    /\ widx = 0
    /\ fs = [f \in Files |-> Absent]
    /\ fs0 = [f \in Files |-> Absent]
    /\ clock = 1
    /\ runNo = 1

ScorerNext == BuildResults

ScorerSpec == ScorerInit /\ [][ScorerNext]_vars

(***************************************************************************)
(* Claims about batch_score_providers.                                     *)
(***************************************************************************)

\* C1 (in the form the claim entails): a run that aborts has written none
\* of its output files: at the abort no file of the output directory holds
\* a table that it did not hold when the run started.
C1_AbortWritesNothing ==
    pc = "aborted" =>
        \A f \in Files : fs[f].kind = "table" => fs[f] = fs0[f]

\* the snapshot of a date is written: both its files hold a table
SnapshotWritten(d) ==
    \A f \in Formats : fs[<<"dated", d, f>>].kind = "table"

\* C2 (the snapshot half, which the claim entails): once the snapshot of a
\* run date has been written, no later run, a second run on the same date
\* included, replaces the table either of its files holds by another one.
C2_SnapshotAppendOnly ==
    [][\A d \in Dates : \A f \in Formats :
          (SnapshotWritten(d) /\ fs'[<<"dated", d, f>>].kind = "table")
              => fs'[<<"dated", d, f>>] = fs[<<"dated", d, f>>]]_vars

MissingTrainedColumn(d) ==
    /\ "provider_id" \in d.cols
    /\ \E c \in TrainedColumns : c \notin d.cols

\* C3: with a feature table that lacks a column the model was trained on,
\* the run never gets past the scoring call: it aborts there (or earlier,
\* at model resolution) with no results built, the output directory not
\* created and no output file written.
C3_SchemaMismatchWritesNothing ==
    (pc \notin {"idle", "start"} /\ MissingTrainedColumn(df)) =>
        /\ pc \in {"loaded", "model", "aborted"}
        /\ pc = "aborted" => error \in {"ModelResolution", "SchemaMismatch"}
        /\ results = <<>>
        /\ ~dir_made
        /\ widx = 0
        /\ fs = fs0

C3_Witness ==
    /\ pc = "aborted"
    /\ error = "SchemaMismatch"
    /\ MissingTrainedColumn(df)
    /\ df.nrows >= 1

(***************************************************************************)
(* Claims about the risk scorer.                                           *)
(***************************************************************************)
Built == pc = "built"

Score_(i) == results[i].fraud_risk_score

\* C4: every normalized fraud_risk_score of a scored batch lies in [0,1].
C4_NormalizedInUnitInterval ==
    Built => \A i \in DOMAIN results :
        /\ Score_(i).den > 0
        /\ 0 <= Score_(i).num
        /\ Score_(i).num <= Score_(i).den

C4_Witness ==
    /\ Built
    /\ \E i \in DOMAIN scores : scores[i] < 0
    /\ \E i \in DOMAIN results : Score_(i).num = Score_(i).den
    /\ \E i \in DOMAIN results : Score_(i).num = 0
    /\ \E i \in DOMAIN results :
          0 < Score_(i).num /\ Score_(i).num < Score_(i).den

Degenerate == score_max(scores) = score_min(scores)

\* C5: in a degenerate batch (max(raw) = min(raw)) every normalized score
\* is exactly 0, every band is LOW, and the run has raised no error.
C5_DegenerateBatchAllZeroLow ==
    (Built /\ Degenerate) =>
        /\ error = "none"
        /\ DOMAIN results = DOMAIN scores
        /\ \A i \in DOMAIN results :
              /\ Score_(i).num = 0
              /\ results[i].risk_band = "LOW"

C5_Witness ==
    /\ Built
    /\ Degenerate
    /\ Len(scores) >= 2
    /\ scores[1] # 0

\* C6: the band of a normalized score s is HIGH iff s >= 0.95, MEDIUM iff
\* 0.85 <= s < 0.95, LOW iff s < 0.85.
C6_BandThresholds ==
    Built => \A i \in DOMAIN results :
        LET n100 == Score_(i).num * 100
            d == Score_(i).den
            b == results[i].risk_band
        IN  /\ b \in {"LOW", "MEDIUM", "HIGH"}
            /\ b = "HIGH" <=> n100 >= 95 * d
            /\ b = "MEDIUM" <=> (85 * d <= n100 /\ n100 < 95 * d)
            /\ b = "LOW" <=> n100 < 85 * d

\* a batch with a score of exactly 0.95, banded HIGH, beside a LOW one
C6_Witness ==
    /\ Built
    /\ \E i \in DOMAIN results :
          /\ Score_(i).num * 100 = 95 * Score_(i).den
          /\ results[i].risk_band = "HIGH"
    /\ \E i \in DOMAIN results : results[i].risk_band = "LOW"

\* C7: within a scored batch, an entity whose normalized score is at least
\* another's has a band at least as severe (LOW < MEDIUM < HIGH).
C7_BandMonotonic ==
    Built => \A i, j \in DOMAIN results :
        FracLE(Score_(j), Score_(i)) =>
            Severity(results[i].risk_band) >= Severity(results[j].risk_band)

C7_Witness ==
    /\ Built
    /\ \E i, j, k \in DOMAIN results :
          /\ results[i].risk_band = "LOW"
          /\ results[j].risk_band = "MEDIUM"
          /\ results[k].risk_band = "HIGH"


\* C15: in a batch whose raw scores are not all equal, every provider at the
\* batch maximum has normalized score exactly 1 and band HIGH, every provider
\* at the batch minimum has normalized score exactly 0 and band LOW; so such
\* a batch holds at least one HIGH and at least one LOW provider.
C15_ExtremesPinned ==
    (Built /\ ~Degenerate) =>
        /\ \A i \in DOMAIN results :
              scores[i] = score_max(scores) =>
                  /\ Score_(i).num = Score_(i).den
                  /\ Score_(i).den > 0
                  /\ results[i].risk_band = "HIGH"
        /\ \A i \in DOMAIN results :
              scores[i] = score_min(scores) =>
                  /\ Score_(i).num = 0
                  /\ Score_(i).den > 0
                  /\ results[i].risk_band = "LOW"
        /\ \E i \in DOMAIN results : results[i].risk_band = "HIGH"
        /\ \E i \in DOMAIN results : results[i].risk_band = "LOW"

C15_Witness ==
    /\ Built
    /\ ~Degenerate
    /\ Len(scores) = 3
    /\ score_min(scores) < 0
    /\ \E i, j \in DOMAIN scores :
          i # j /\ scores[i] = score_max(scores) /\ scores[j] = scores[i]
    /\ \A i \in DOMAIN results : results[i].risk_band # "MEDIUM"

(***************************************************************************)
(* evaluate_model_stability, src/training/evaluate_stability.py 18-119.    *)
(***************************************************************************)
BatchOff ==
    /\ pc = "off"
    /\ error = "none"
    /\ df = NoTable
    /\ scores = <<>>
    /\ results = <<>>
    /\ dir_made = FALSE
    /\ today_str = 0
    /\ widx = 0
    /\ fs = [f \in Files |-> Absent]
    /\ fs0 = [f \in Files |-> Absent]
    /\ clock = 1
    /\ runNo = 0

ProviderIds == 1..MaxProviders

\* the provider_id column of a feature table: any number of rows,
\* identifiers repeated or not.  Rows are listed by ascending identifier:
\* nothing below depends on the order of the rows (the order a sort leaves
\* tied rows in is taken to be arbitrary)
IdColumns ==
    UNION {{c \in [1..n -> ProviderIds] :
               \A a, b \in 1..n : a < b => c[a] <= c[b]} :
           n \in 0..MaxProviders}

StabRaw == 1..MaxStabRaw

\* base_random_state=42, line 129
BaseSeeds == {42}

StabInit ==
    /\ BatchOff
    /\ DetOff
    /\ spc = "start"
    /\ serror = "none"
    /\ n_runs \in (0 - 1)..MaxRuns
    /\ top_n \in (0 - 1)..MaxTopN
    /\ base_random_state \in BaseSeeds
    /\ ids = <<>>
    /\ all_scores = <<>>
    /\ scores_df = <<>>
    /\ corr_diag = <<>>
    /\ top_sets = <<>>
    /\ overlaps = <<>>

Raise(e) ==
    /\ spc' = "error"
    /\ serror' = e

\* lines 42-48
LoadData ==
    /\ spc = "start"
    /\ \/ /\ Raise("FeatureLoad")
          /\ UNCHANGED ids
       \/ /\ ids' \in IdColumns
          /\ spc' = "loop"
          /\ UNCHANGED serror
    /\ UNCHANGED <<n_runs, top_n, base_random_state, all_scores, scores_df,
                   corr_diag, top_sets, overlaps>>
    /\ UNCHANGED <<batchVars, detVars>>

\* run_df with every iteration seeded alike
run_df_same_seed(i, s) ==
    [run |-> i,
     seed |-> base_random_state,
     rows |-> [k \in DOMAIN ids |-> [provider_id |-> ids[k], score |-> s[k]]]]

\* run_df of iteration i, lines 65-69
run_df(i, s) ==
    [run |-> i,
     seed |-> base_random_state + i,
     rows |-> [k \in DOMAIN ids |-> [provider_id |-> ids[k], score |-> s[k]]]]

\* one iteration of the loop of lines 52-71: a fresh pipeline seeded with
\* base_random_state + i is fitted on X and scores X; fitting needs a row
RunIteration ==
    /\ spc = "loop"
    /\ Len(all_scores) < n_runs
    /\ IF Len(ids) = 0
       THEN /\ Raise("Fit")
            /\ UNCHANGED all_scores
       ELSE /\ \E s \in [DOMAIN ids -> StabRaw] :
                 all_scores' = Append(all_scores, run_df(Len(all_scores), s))
            /\ UNCHANGED <<spc, serror>>
    /\ UNCHANGED <<n_runs, top_n, base_random_state, ids, scores_df,
                   corr_diag, top_sets, overlaps>>
    /\ UNCHANGED <<batchVars, detVars>>

RECURSIVE concat(_)
\* pd.concat: the rows of every frame, each tagged with its run
concat(frames) ==
    IF frames = <<>> THEN <<>>
    ELSE LET f == Head(frames) IN
         [k \in DOMAIN f.rows |->
             [provider_id |-> f.rows[k].provider_id,
              score |-> f.rows[k].score,
              run |-> f.run]] \o concat(Tail(frames))

\* line 73, after range(n_runs) is exhausted: pd.concat raises on an empty
\* list
Concat ==
    /\ spc = "loop"
    /\ ~(Len(all_scores) < n_runs)
    /\ IF all_scores = <<>>
       THEN /\ Raise("Concat")
            /\ UNCHANGED scores_df
       ELSE /\ scores_df' = concat(all_scores)
            /\ spc' = "pivot"
            /\ UNCHANGED serror
    /\ UNCHANGED <<n_runs, top_n, base_random_state, ids, all_scores,
                   corr_diag, top_sets, overlaps>>
    /\ UNCHANGED <<batchVars, detVars>>

\* the rows of scores_df of one run, line 97
RunRows(sdf, run) == SelectSeq(sdf, LAMBDA r : r.run = run)

\* DataFrame.pivot refuses an index with repeated (provider_id, run) entries
PivotAccepts(sdf) ==
    \A a, b \in DOMAIN sdf :
        (sdf[a].provider_id = sdf[b].provider_id /\ sdf[a].run = sdf[b].run)
            => a = b

\* Pearson correlation of a run's column with itself: 1 when the column
\* varies, NaN when its variance is zero
CorrSelf(col) ==
    IF \E a, b \in DOMAIN col : col[a].score # col[b].score
    THEN "1" ELSE "nan"

\* lines 80-87
PivotCorr ==
    /\ spc = "pivot"
    /\ IF PivotAccepts(scores_df)
       THEN /\ corr_diag' = [r \in 1..Len(all_scores) |->
                                CorrSelf(RunRows(scores_df, r - 1))]
            /\ spc' = "top"
            /\ UNCHANGED serror
       ELSE /\ Raise("Pivot")
            /\ UNCHANGED corr_diag
    /\ UNCHANGED <<n_runs, top_n, base_random_state, ids, all_scores,
                   scores_df, top_sets, overlaps>>
    /\ UNCHANGED <<batchVars, detVars>>

\* DataFrame.head(n) of a frame of len rows: the first n rows, or all but
\* the last -n when n is negative
HeadCount(n, len) ==
    IF n >= 0 THEN (IF n < len THEN n ELSE len)
    ELSE (IF len + n > 0 THEN len + n ELSE 0)

\* sort_values("score", ascending=False).head(top_n) of line 98-99 names no
\* secondary key and uses the default, unstable sort: any order of the rows
\* that is descending in score may result, so the head is any k rows none
\* of which scores below a row left out
HeadsOfSort(rows, k) ==
    {T \in SUBSET DOMAIN rows :
        /\ Cardinality(T) = k
        /\ \A a \in T : \A b \in DOMAIN rows \ T :
              rows[a].score >= rows[b].score}

TopSetsOf(rows, k) ==
    {{rows[a].provider_id : a \in T} : T \in HeadsOfSort(rows, k)}

\* the scores of a run as (provider_id, score) rows, in frame order
RunScores(sdf, run) ==
    [k \in DOMAIN RunRows(sdf, run) |->
        [provider_id |-> RunRows(sdf, run)[k].provider_id,
         score |-> RunRows(sdf, run)[k].score]]

\* one iteration of the loop of lines 95-102; the sort is a fixed
\* algorithm, so a run whose rows equal an earlier run's gets the same set
TopSet ==
    /\ spc = "top"
    /\ Len(top_sets) < n_runs
    /\ LET run == Len(top_sets)
           rows == RunScores(scores_df, run)
           same == {r \in 0..(run - 1) : RunScores(scores_df, r) = rows}
       IN  \E T \in TopSetsOf(rows, HeadCount(top_n, Len(rows))) :
              /\ \A r \in same : T = top_sets[r + 1]
              /\ top_sets' = Append(top_sets, T)
    /\ UNCHANGED <<spc, serror, n_runs, top_n, base_random_state, ids,
                   all_scores, scores_df, corr_diag, overlaps>>
    /\ UNCHANGED <<batchVars, detVars>>

\* line 106
overlap(a, b) == Frac(Cardinality(a \cap b), top_n)

\* one iteration of the loop of lines 105-107; the division raises when
\* top_n is 0
Overlap ==
    /\ spc = "top"
    /\ ~(Len(top_sets) < n_runs)
    /\ Len(overlaps) < Len(top_sets) - 1
    /\ LET i == Len(overlaps) + 1 IN
       IF top_n = 0
       THEN /\ Raise("ZeroDivision")
            /\ UNCHANGED overlaps
       ELSE /\ overlaps' =
                   Append(overlaps, overlap(top_sets[i], top_sets[i + 1]))
            /\ UNCHANGED <<spc, serror>>
    /\ UNCHANGED <<n_runs, top_n, base_random_state, ids, all_scores,
                   scores_df, corr_diag, top_sets>>
    /\ UNCHANGED <<batchVars, detVars>>

\* lines 109-119
Report ==
    /\ spc = "top"
    /\ ~(Len(top_sets) < n_runs)
    /\ ~(Len(overlaps) < Len(top_sets) - 1)
    /\ spc' = "done"
    /\ UNCHANGED <<serror, n_runs, top_n, base_random_state, ids,
                   all_scores, scores_df, corr_diag, top_sets, overlaps>>
    /\ UNCHANGED <<batchVars, detVars>>

StabNext ==
    \/ LoadData
    \/ RunIteration
    \/ Concat
    \/ PivotCorr
    \/ TopSet
    \/ Overlap
    \/ Report

StabilitySpec == StabInit /\ [][StabNext]_vars

(***************************************************************************)
(* Claims about evaluate_model_stability.                                  *)
(***************************************************************************)

\* the value num/den lies in [0,1]
InUnitInterval(f) ==
    \/ f.den > 0 /\ 0 <= f.num /\ f.num <= f.den
    \/ f.den < 0 /\ f.den <= f.num /\ f.num <= 0

\* C8: every overlap ratio computed for a pair of adjacent runs lies in
\* [0,1], whatever top_n, n_runs and the number of entities.
C8_OverlapInUnitInterval ==
    \A i \in DOMAIN overlaps : InUnitInterval(overlaps[i])

\* C9 (for top_n >= 1, which the claim covers): two adjacent runs that give
\* every entity the same raw score have overlap ratio exactly 1.
C9_IdenticalRunsOverlapOne ==
    \A i \in DOMAIN overlaps :
        (top_n >= 1 /\ RunScores(scores_df, i - 1) = RunScores(scores_df, i))
            => overlaps[i].num = overlaps[i].den

\* C10 (for top_n >= 1): the top-K set taken for a run is uniquely
\* determined by the run's (entity, raw score) pairs and K, also when
\* entities tie at the K-th rank: it is the only set the selection can
\* yield.
C10_TopKUniquelyDetermined ==
    \A r \in DOMAIN top_sets :
        LET rows == RunScores(scores_df, r - 1) IN
        top_n >= 1 =>
            TopSetsOf(rows, HeadCount(top_n, Len(rows))) = {top_sets[r]}

\* the feature table has been read: line 43 has returned
DataLoaded == spc \notin {"start"} /\ serror # "FeatureLoad"

\* C11: called with n_runs <= 0 the function raises before the feature
\* table is loaded and before any pipeline is built, fitted or scored.
C11_NonPositiveRunsFailFast ==
    n_runs <= 0 => (~DataLoaded /\ all_scores = <<>>)

\* C12: the diagonal of the run-by-run correlation matrix is exactly 1 for
\* every run, also when a run's scores have zero variance.
C12_CorrDiagonalOne ==
    \A r \in DOMAIN corr_diag : corr_diag[r] = "1"

\* the loop of lines 52-71 and the concat of line 73 are behind
LoopDone ==
    \/ spc \in {"pivot", "top", "done"}
    \/ spc = "error" /\ serror \in {"Pivot", "ZeroDivision"}

\* C14: with n_runs = N >= 1, run i (0 <= i < N) used a pipeline seeded
\* base_random_state + i on the full table, and after the loop the score
\* table holds exactly one (entity, raw score) entry per row of the feature
\* table per run: N * |rows| entries, tagged with the runs 0..N-1.
C14_OneEntryPerEntityPerRun ==
    (n_runs >= 1 /\ LoopDone) =>
        /\ Len(all_scores) = n_runs
        /\ Len(scores_df) = n_runs * Len(ids)
        /\ \A j \in DOMAIN scores_df : scores_df[j].run \in 0..(n_runs - 1)
        /\ \A i \in 0..(n_runs - 1) :
              /\ all_scores[i + 1].run = i
              /\ all_scores[i + 1].seed = base_random_state + i
              /\ Len(RunRows(scores_df, i)) = Len(ids)
              /\ \A k \in DOMAIN ids :
                    /\ RunRows(scores_df, i)[k].provider_id = ids[k]
                    /\ RunRows(scores_df, i)[k].score \in StabRaw
                    /\ RunRows(scores_df, i)[k].score =
                          all_scores[i + 1].rows[k].score

C14_Witness ==
    /\ spc = "done"
    /\ n_runs = 2
    /\ Len(ids) = 2
    /\ ids[1] # ids[2]
    /\ Len(scores_df) = 4
    /\ all_scores[1].rows # all_scores[2].rows

(***************************************************************************)
(* Two pipelines built independently by build_fraud_pipeline,              *)
(* src/pipelines/fraud_pipeline.py 23-101, with one random_state, fitted   *)
(* on and scoring one feature matrix as in lines 55-63 of                  *)
(* evaluate_stability.py.  The isolation forest itself is the ensemble of  *)
(* section 4.2 of the specification: sub-seeds derived from the master     *)
(* seed, one tree per sub-seed, trees built concurrently.                  *)
(***************************************************************************)
Pipes == {1, 2}

\* a missing cell
NaN == 0 - 1

FeatureValues == 0..1

\* one numeric feature column of at least one row, cells missing or not,
\* at least one cell observed
Matrices ==
    UNION {{m \in [1..n -> FeatureValues \cup {NaN}] :
               \E k \in 1..n : m[k] # NaN} :
           n \in 1..MaxDetRows}

\* base_random_state and base_random_state + 1, lines 53 and 129
DetSeeds == {42, 43}

\* contamination=0.02, line 126 of evaluate_stability.py
Contamination == Frac(2, 100)

\* the model step built with random_state=None
build_fraud_pipeline_unseeded(contamination, random_state) ==
    [n_estimators |-> MaxTrees,
     contamination |-> contamination,
     random_state |-> {}]

\* the model step of the pipeline, lines 79-84: random_state is handed on
\* to the forest ({} stands for None)
build_fraud_pipeline(contamination, random_state) ==
    [n_estimators |-> MaxTrees,
     contamination |-> contamination,
     random_state |-> {random_state}]

Observed(m) == SelectSeq(m, LAMBDA v : v # NaN)

Sorted(q) ==
    CHOOSE r \in [DOMAIN q -> Range(q)] :
        /\ \A a, b \in DOMAIN q : a < b => r[a] <= r[b]
        /\ \A v \in Range(q) :
              Cardinality({k \in DOMAIN q : q[k] = v}) =
              Cardinality({k \in DOMAIN r : r[k] = v})

\* twice the median of a non-empty column
Median2(q) ==
    IF Len(q) % 2 = 1
    THEN 2 * Sorted(q)[(Len(q) + 1) \div 2]
    ELSE Sorted(q)[Len(q) \div 2] + Sorted(q)[(Len(q) \div 2) + 1]

\* SimpleImputer(strategy="median"), lines 58-60; every value is kept
\* doubled so that the median of an even number of cells is an integer
imputer(m) ==
    [k \in DOMAIN m |->
        IF m[k] = NaN THEN Median2(Observed(m)) ELSE 2 * m[k]]

RECURSIVE SumSeq(_)
SumSeq(q) == IF q = <<>> THEN 0 ELSE q[1] + SumSeq(Tail(q))

\* StandardScaler, line 70: the column centred on its mean, kept times the
\* number of rows; the division by the column's deviation is left out
scaler(v) == [k \in DOMAIN v |-> (Len(v) * v[k]) - SumSeq(v)]

\* the generators: draw n of the generator seeded with origin
RngMod == 7

RngValue(origin, n) == ((origin * 3) + (n * 5) + 1) % RngMod

\* step 1 of the build: one sub-seed per tree, drawn from a generator
\* seeded with random_state, or from the process-wide generator when
\* random_state is None
sub_seeds(p) ==
    IF p.random_state = {}
    THEN [t \in 1..p.n_estimators |-> RngValue(0, global_rng + t)]
    ELSE [t \in 1..p.n_estimators |->
             RngValue(CHOOSE r \in p.random_state : TRUE, t)]

\* step 2 of the build: the tree grown from sub-seed s on the matrix z,
\* given by the path length it assigns to every row
Tree(s, z) == [k \in DOMAIN z |-> 1 + ((s + z[k]) % 5)]

\* the raw score of every row: the path lengths summed over the trees in
\* the order of the ensemble (the score is a fixed function of this sum)
score_samples(est) ==
    [k \in DOMAIN est[1] |->
        SumSeq([t \in DOMAIN est |-> est[t][k]])]

NewPipe ==
    [pc |-> "new", z |-> <<>>, sub_seeds |-> <<>>, estimators |-> <<>>,
     order |-> <<>>, rng_at |-> 0, raw |-> <<>>]

DetInit ==
    /\ BatchOff
    /\ StabOff
    /\ det_seed \in DetSeeds
    /\ features \in Matrices
    /\ global_rng = 0
    /\ pipe = [b \in Pipes |-> NewPipe]

\* build_fraud_pipeline and the start of pipeline.fit(X), lines 55-60:
\* the preprocessing is fitted and applied and the sub-seeds are drawn
Fit(b) ==
    /\ pipe # <<>>
    /\ pipe[b].pc = "new"
    /\ LET p == build_fraud_pipeline(Contamination, det_seed)
       IN /\ pipe' = [pipe EXCEPT ![b] =
                [pc |-> "fitting",
                 z |-> scaler(imputer(features)),
                 sub_seeds |-> sub_seeds(p),
                 estimators |-> [t \in 1..p.n_estimators |-> <<>>],
                 order |-> <<>>,
                 rng_at |-> global_rng,
                 raw |-> <<>>]]
          /\ global_rng' = IF p.random_state = {}
                           THEN global_rng + p.n_estimators
                           ELSE global_rng
    /\ UNCHANGED <<det_seed, features, batchVars, stabVars>>

\* a worker of n_jobs=-1, line 83, finishes tree t: any tree not yet built,
\* in any order, stored at its own index
BuildTree(b, t) ==
    /\ pipe # <<>>
    /\ pipe[b].pc = "fitting"
    /\ t \in DOMAIN pipe[b].estimators
    /\ pipe[b].estimators[t] = <<>>
    /\ pipe' = [pipe EXCEPT
                  ![b].estimators[t] = Tree(pipe[b].sub_seeds[t], pipe[b].z),
                  ![b].order = Append(pipe[b].order, t)]
    /\ UNCHANGED <<det_seed, features, global_rng, batchVars, stabVars>>

\* pipeline.score_samples(X), line 63, once fit has returned
ScoreSamples(b) ==
    /\ pipe # <<>>
    /\ pipe[b].pc = "fitting"
    /\ \A t \in DOMAIN pipe[b].estimators : pipe[b].estimators[t] # <<>>
    /\ pipe' = [pipe EXCEPT
                  ![b].pc = "scored",
                  ![b].raw = score_samples(pipe[b].estimators)]
    /\ UNCHANGED <<det_seed, features, global_rng, batchVars, stabVars>>

\* any other code of the process draws from the process-wide generator
AmbientDraw ==
    /\ pipe # <<>>
    /\ global_rng < MaxDraws
    /\ global_rng' = global_rng + 1
    /\ UNCHANGED <<det_seed, features, pipe, batchVars, stabVars>>

DetNext ==
    \/ \E b \in Pipes : Fit(b)
    \/ \E b \in Pipes : \E t \in 1..MaxTrees : BuildTree(b, t)
    \/ \E b \in Pipes : ScoreSamples(b)
    \/ AmbientDraw

DeterminismSpec == DetInit /\ [][DetNext]_vars

BothScored == pipe # <<>> /\ \A b \in Pipes : pipe[b].pc = "scored"

=============================================================================
